---- MODULE Spec2Model ----
(***************************************************************************)
(* Photoelectric Effect Laboratory Simulator (src/app.js), class           *)
(* PhotoelectricLaboratory: the session state, the UI handlers, the        *)
(* cooperative automatic voltage sweep, the physics calculation and the    *)
(* least-squares estimate of Planck's constant.                            *)
(*                                                                         *)
(* Numbers.  The program computes in IEEE doubles; the model computes in   *)
(* fixed point, with these units:                                          *)
(*   wavelength          nm (the program only ever holds integers)         *)
(*   energy, potential   1e-4 eV, 1e-4 V                                   *)
(*   frequency           1e11 Hz   (a stored d.frequency, which the        *)
(*                       program keeps in 1e14 Hz, is in 1e-3 of that)     *)
(*   voltage             a record [cv, eps]: hundredths of a volt (the     *)
(*                       slider step) and the sign of the rounding residue *)
(*                       the double carries beyond that                    *)
(*   current             1e-5 microampere                                  *)
(*   random factors      1e-6                                              *)
(* Quotients are floored.  Over the whole input domain (7 materials, 4     *)
(* filters, custom wavelengths 200..700) the comparison of photon energy   *)
(* with work function has the same outcome in this fixed point as in the   *)
(* doubles of the program.                                                 *)
(***************************************************************************)
EXTENDS Integers, Sequences, FiniteSets, TLC

\* ------------------------------------------------------------------ bounds
\* MaxLog: a manual measurement or a new sweep is taken only while the log
\* holds fewer records, and the user does anything but reset only while it
\* holds no more.  MaxSweeps: sweeps suspended at one time.
MaxLog == 1
MaxSweeps == 2

\* The suspensions of a sweep (numbered by the iterations of its loop done
\* so far, 1..25) during which the user acts; the user also acts whenever
\* no sweep is suspended.
InterleavePoints == {1, 25}

MaterialInputs == {1, 3}
FilterInputs == {"custom"}
WavelengthInputs == {439}
VoltageInputs == {0}
JitterInputs == {0}
\* the 1000 noise draws of a measurement: lo of them at the lowest value
\* (-0.05 % of the current), hi at the highest (+0.05 %), the rest at zero
NoiseInputs == {[lo |-> 0, hi |-> 0]}

\* the inputs of the specifications that apply one function
PhysicsMaterials == 0..6
PhysicsSelects == {"blue", "green", "yellow", "orange", "custom"}
PhysicsWavelengths == 200..700
PhysicsVoltages == {-307, -100, -50, 0, 100}
PhysicsJitter == {-500, 0, 499}
RegressionMaterials == {0, 1, 2}
RegressionWavelengths == {375, 400, 500}
MaxPoints == 3
SamplerMaterials == 0..6
SamplerSelects == {"blue", "green", "yellow", "orange"}
SamplerVoltages == {-50, 0}
SamplerNoise ==
    {[lo |-> 0, hi |-> 0], [lo |-> 166, hi |-> 166], [lo |-> 500, hi |-> 500],
     [lo |-> 1000, hi |-> 0], [lo |-> 0, hi |-> 1000], [lo |-> 300, hi |-> 100]}

\* --------------------------------------------------------------- constants
\* this.constants (planckConstant 4.136e-15 eV.s as 4136e-18,
\* speedOfLight 3e8 m/s as 3000 nm * 1e14 Hz, elementaryCharge 1.602e-19 C
\* as 1602e-22)
planckConstant == 4136
planckConstantExp == -18
speedOfLight == 3000
elementaryCharge == 1602
elementaryChargeExp == -22

\* this.filters
filters ==
    [blue   |-> [wavelength |-> 438, frequency |-> 6849, energy |-> 28330],
     green  |-> [wavelength |-> 565, frequency |-> 5310, energy |-> 21960],
     yellow |-> [wavelength |-> 578, frequency |-> 5190, energy |-> 21470],
     orange |-> [wavelength |-> 598, frequency |-> 5017, energy |-> 20750]]

FilterNames == {"blue", "green", "yellow", "orange"}

\* this.materials (index 0..6 as in the material-select options)
materials ==
    [i \in 0..6 |->
        CASE i = 0 -> [name |-> "Cesium",    workFunction |-> 21000]
          [] i = 1 -> [name |-> "Sodium",    workFunction |-> 22800]
          [] i = 2 -> [name |-> "Potassium", workFunction |-> 23000]
          [] i = 3 -> [name |-> "Aluminum",  workFunction |-> 40800]
          [] i = 4 -> [name |-> "Copper",    workFunction |-> 47000]
          [] i = 5 -> [name |-> "Silver",    workFunction |-> 47300]
          [] i = 6 -> [name |-> "Gold",      workFunction |-> 51000]]

\* ----------------------------------------------------------------- helpers
Abs(x) == IF x < 0 THEN -x ELSE x
MaxSecond(a, b) == b
MaxFirst(a, b) == a
Max(a, b) == IF a >= b THEN a ELSE b

RECURSIVE Pow10(_)
Pow10(k) == IF k <= 0 THEN 1 ELSE 10 * Pow10(k - 1)


\* floor(a * b / c) for 0 <= a, 0 <= b, 0 < c, without forming a * b
MulDiv(a, b, c) == (a \div c) * b + ((a % c) * b) \div c

\* A voltage as the program holds it: cv hundredths of a volt, eps the sign
\* of what the double differs by from the double nearest to cv / 100.
Volt(cv, eps) == [cv |-> cv, eps |-> eps]

\* v >= w for two voltages
VoltGeq(v, w) == v.cv > w.cv \/ (v.cv = w.cv /\ v.eps >= w.eps)

\* ------------------------------------------------------------------- state
VARIABLES
    currentMaterial,         \* this.state.currentMaterial (index into materials)
    currentFilter,           \* this.state.currentFilter
    customWavelength,        \* this.state.customWavelength
    voltage,                 \* this.state.voltage
    isExperimentActive,      \* this.state.isExperimentActive
    measurementCount,        \* this.state.measurementCount
    autoSweepActive,         \* this.state.autoSweepActive
    filterSelectValue,       \* elements.filterSelect.value
    takeMeasurementDisabled, \* elements.takeMeasurement.disabled
    autoSweepDisabled,       \* elements.autoSweep.disabled
    experimentData,          \* this.experimentData
    ivData,                  \* this.ivData
    frequencyData,           \* this.frequencyData
    planckDisplay,           \* elements.calculatedPlanck / elements.accuracy text
    physics,                 \* the PhysicsResult last rendered
    sweeps,                  \* suspended performAutoSweep calls: loop variable of each
    output                   \* what the last step showed or offered for download

\* the state of the program and of its page
programVars == <<currentMaterial, currentFilter, customWavelength, voltage,
                 isExperimentActive, measurementCount, autoSweepActive,
                 filterSelectValue, takeMeasurementDisabled, autoSweepDisabled,
                 experimentData, ivData, frequencyData, planckDisplay, physics, sweeps>>

vars == <<currentMaterial, currentFilter, customWavelength, voltage,
          isExperimentActive, measurementCount, autoSweepActive,
          filterSelectValue, takeMeasurementDisabled, autoSweepDisabled,
          experimentData, ivData, frequencyData, planckDisplay, physics, sweeps,
          output>>

\* a step that shows no alert and offers no file
NoOutput == [kind |-> "none"]

\* ----------------------------------------------------------------- physics
\* The fields of this.state and of the filter select that calculatePhysics
\* reads, as one value.
Settings(material, filter, select, wavelength, v) ==
    [currentMaterial |-> material, currentFilter |-> filter,
     filterSelectValue |-> select, customWavelength |-> wavelength, voltage |-> v]

CurrentSettings ==
    Settings(currentMaterial, currentFilter, filterSelectValue, customWavelength, voltage)

\* getCurrentWavelengthData(): the custom branch is taken when the select
\* shows 'custom' (state.currentFilter itself is never set to 'custom');
\* frequency = c / (wavelength * 1e-9), energy = h * frequency.
getCurrentWavelengthDataComputed(s) ==
    [wavelength |-> s.customWavelength,
     frequency  |-> (speedOfLight * 1000) \div s.customWavelength,
     energy     |-> (planckConstant * speedOfLight) \div s.customWavelength]
getCurrentWavelengthData(s) ==
    IF s.currentFilter = "custom" \/ s.filterSelectValue = "custom"
    THEN [wavelength |-> s.customWavelength,
          frequency  |-> (speedOfLight * 1000) \div s.customWavelength,
          energy     |-> (planckConstant * speedOfLight) \div s.customWavelength]
    ELSE [wavelength |-> filters[s.currentFilter].wavelength,
          frequency  |-> filters[s.currentFilter].frequency,
          energy     |-> filters[s.currentFilter].energy]

\* const isEmission = photonEnergy > workFunction
IsEmissionNonStrict(photonEnergy, workFunction) == photonEnergy >= workFunction
IsEmission(photonEnergy, workFunction) == photonEnergy > workFunction

\* const saturationCurrent = 15 (microampere)
saturationCurrent == 1500000

\* the reverse-bias branch: saturationCurrent * Math.max(0, factor),
\* factor = (voltage + stoppingPotential) / stoppingPotential
RampCurrentFalling(v, stoppingPotential) ==
    MulDiv(saturationCurrent, Max(0, -100 * v.cv), stoppingPotential)
RampCurrent(v, stoppingPotential) ==
    MulDiv(saturationCurrent, Max(0, 100 * v.cv + stoppingPotential), stoppingPotential)

\* current * (1 + (Math.random() - 0.5) * 0.001), with j = (random - 0.5) *
\* 0.001 in units of 1e-6, so -500 <= j < 500
JitterTenfold(current, j) == current + (current * j) \div 100000
JitterAdded(current, j) == current + j
Jitter(current, j) == current + (current * j) \div 1000000

\* calculatePhysics() in the settings s, j the draw of Math.random() it uses
calculatePhysics(s, j) ==
    LET wavelengthData == getCurrentWavelengthData(s)
        workFunction == materials[s.currentMaterial].workFunction
        photonEnergy == wavelengthData.energy
        maxKineticEnergy == Max(0, photonEnergy - workFunction)
        stoppingPotential == maxKineticEnergy
        thresholdFrequency == (workFunction * 1000) \div planckConstant
        thresholdWavelength == (speedOfLight * 1000) \div thresholdFrequency
        isEmission == IsEmission(photonEnergy, workFunction)
        aboveStop == \/ 100 * s.voltage.cv > -stoppingPotential
                     \/ (100 * s.voltage.cv = -stoppingPotential /\ s.voltage.eps >= 0)
        current ==
            IF isEmission /\ aboveStop
            THEN Jitter(IF VoltGeq(s.voltage, Volt(0, 0))
                        THEN saturationCurrent
                        ELSE RampCurrent(s.voltage, stoppingPotential), j)
            ELSE 0
    IN [wavelength |-> wavelengthData.wavelength,
        frequency |-> wavelengthData.frequency,
        photonEnergy |-> photonEnergy,
        workFunction |-> workFunction,
        maxKineticEnergy |-> maxKineticEnergy,
        stoppingPotential |-> stoppingPotential,
        thresholdFrequency |-> thresholdFrequency,
        thresholdWavelength |-> thresholdWavelength,
        current |-> current,
        isEmission |-> isEmission,
        saturationCurrent |-> IF isEmission THEN saturationCurrent ELSE 0]

\* -------------------------------------------------------------- regression
\* A non-negative quotient n / d as a decimal of six significant digits,
\* [m |-> 100000..999999, e |-> exponent], value m * 10^e (m = 0 for zero).
RECURSIVE DecUp(_, _, _, _)
DecUp(q, r, d, e) ==
    IF q >= 100000 THEN [m |-> q, e |-> e]
    ELSE DecUp(q * 10 + (r * 10) \div d, (r * 10) % d, d, e - 1)

RECURSIVE DecDown(_, _)
DecDown(q, e) == IF q < 1000000 THEN [m |-> q, e |-> e] ELSE DecDown(q \div 10, e + 1)

ToDecimal(n, d) ==
    IF n = 0 THEN [m |-> 0, e |-> 0]
    ELSE IF n \div d >= 100000 THEN DecDown(n \div d, 0)
    ELSE DecUp(n \div d, n % d, d, 0)

\* Number.prototype.toExponential(3) of m * 10^e (m > 0): four digits and
\* the exponent of the first one
RECURSIVE ToExponential3(_, _)
ToExponential3(m, e) ==
    IF m >= 100000 THEN ToExponential3(m \div 10, e + 1)
    ELSE IF m >= 10000
         THEN LET r == (m + 5) \div 10
              IN IF r >= 10000 THEN [mant |-> 1000, exp |-> e + 5]
                 ELSE [mant |-> r, exp |-> e + 4]
    ELSE IF m = 0 THEN [mant |-> 0, exp |-> 0]
    ELSE ToExponential3(m * 10, e - 1)

\* round(q * 10^k) for q >= 0
RECURSIVE Shift(_, _)
Shift(q, k) == IF k >= 0 THEN q ELSE Shift(q \div 10, k + 1)

RoundScaled(q, k) ==
    IF k >= 0 THEN q * Pow10(k) ELSE (Shift(q, k + 1) + 5) \div 10

\* the sums of calculatePlanckConstant's forEach over fd[1..i]
RECURSIVE Sums(_, _)
Sums(fd, i) ==
    IF i = 0 THEN [sumX |-> 0, sumY |-> 0, sumXY |-> 0, sumX2 |-> 0]
    ELSE LET p == Sums(fd, i - 1)
             x == fd[i].frequency      \* d.frequency * 1e14, in 1e11 Hz
             y == fd[i].stoppingPotential
         IN [sumX |-> p.sumX + x, sumY |-> p.sumY + y,
             sumXY |-> p.sumXY + x * y, sumX2 |-> p.sumX2 + x * x]

\* The text of elements.calculatedPlanck and elements.accuracy:
\* kind "html" is the text of the page as served ("4.136 x 10^-15 eV.s",
\* "100.0%"), kind "number" a value written by calculatePlanckConstant
\* (mant * 10^(exp - 3) eV.s and accuracy tenths of a percent), kinds "NaN"
\* and "Infinity" what toExponential / toFixed print for such a value.
Display(kind, mant, exp, accuracy) ==
    [kind |-> kind, mant |-> mant, exp |-> exp, accuracy |-> accuracy]

HtmlDisplay == Display("html", 4136, -15, 1000)

\* calculatedH = slope * elementaryCharge, slope = num / den in 1e-15 eV.s
CalculatedHOfSlope(slope) ==
    [m |-> slope.m * elementaryCharge, e |-> slope.e - 15 + elementaryChargeExp]

\* calculatePlanckConstant(): the display it leaves, given the display it
\* finds and this.frequencyData
calculatePlanckConstant(fd, display) ==
    IF Len(fd) < 2 THEN display
    ELSE LET n == Len(fd)
             s == Sums(fd, n)
             num == n * s.sumXY - s.sumX * s.sumY
             den == n * s.sumX2 - s.sumX * s.sumX
         IN IF den = 0
            THEN IF num = 0 THEN Display("NaN", 0, 0, 0)
                 ELSE Display("Infinity", 0, 0, 0)
            ELSE LET sign == IF (num < 0) = (den < 0) THEN 1 ELSE -1
                     slope == ToDecimal(Abs(num), Abs(den))
                     calculatedH == CalculatedHOfSlope(slope)
                     text == ToExponential3(calculatedH.m, calculatedH.e)
                     \* accuracy = calculatedH / planckConstant * 100, toFixed(1)
                     accuracy == RoundScaled(MulDiv(calculatedH.m, 1000, planckConstant),
                                             calculatedH.e - planckConstantExp)
                 IN Display("number", sign * text.mant, text.exp, sign * accuracy)

\* ------------------------------------------------------------- measurement
\* updateFrequencyData(physics): the frequencyData it leaves.  The stored
\* frequency is physics.frequency / 1e14, which in units of 1e-3 * 1e14 Hz
\* is the number physics.frequency is in units of 1e11 Hz.
SameBucketNever(d, p) == FALSE
SameBucket(d, p) == Abs(d.wavelength - p.wavelength) < 1

Existing(fd, p) == {i \in 1..Len(fd) : SameBucket(fd[i], p)}

FrequencyPoint(p, filter) ==
    [wavelength |-> p.wavelength,
     frequency |-> p.frequency,
     stoppingPotential |-> p.stoppingPotential,
     filter |-> filter]

updateFrequencyDataReplace(fd, p, filter) ==
    IF ~p.isEmission THEN fd
    ELSE IF Existing(fd, p) = {} THEN Append(fd, FrequencyPoint(p, filter))
    ELSE [i \in 1..Len(fd) |->
             IF i \in Existing(fd, p) THEN FrequencyPoint(p, filter) ELSE fd[i]]
updateFrequencyDataAlways(fd, p, filter) ==
    IF Existing(fd, p) = {} THEN Append(fd, FrequencyPoint(p, filter)) ELSE fd
updateFrequencyData(fd, p, filter) ==
    IF ~p.isEmission THEN fd
    ELSE IF Existing(fd, p) = {} THEN Append(fd, FrequencyPoint(p, filter))
    ELSE fd

numMeasurements == 1000

\* the largest noise factor, (1 - 0.5) * 0.001, in units of 1e-6
noiseAmplitude == 500

\* floor of the square root of x, 0 <= x < 2^30
RECURSIVE IsqrtIn(_, _, _)
IsqrtIn(x, lo, hi) ==
    IF lo >= hi THEN lo
    ELSE LET mid == (lo + hi + 1) \div 2
         IN IF mid * mid <= x THEN IsqrtIn(x, mid, hi) ELSE IsqrtIn(x, lo, mid - 1)
Isqrt(x) == IsqrtIn(x, 0, 32767)

\* the mean of the 1000 samples physics.current + noise, noise =
\* (Math.random() - 0.5) * 0.001 * physics.current, for the draws a
Mean(current, a) ==
    current + (current * ((noiseAmplitude * (a.hi - a.lo)) \div numMeasurements)) \div 1000000

\* standardError = sqrt(variance) / sqrt(numMeasurements), variance the
\* mean squared deviation from the mean, in units of 1e-9 microampere:
\* current * noiseAmplitude * sqrt(n * (lo + hi) - (hi - lo)^2) / n^1.5
StandardError(current, a) ==
    MulDiv(current,
           Isqrt(numMeasurements * (numMeasurements * (a.lo + a.hi) - (a.hi - a.lo) * (a.hi - a.lo)))
              \div (1000 \div noiseAmplitude),
           100000)

MeasurementRecordNoCount(s, p, a) ==
    [voltage |-> s.voltage,
     current |-> Mean(p.current, a),
     standardError |-> StandardError(p.current, a),
     measurements |-> 0,
     material |-> materials[s.currentMaterial].name,
     wavelength |-> p.wavelength,
     filter |-> s.currentFilter]
MeasurementRecord(s, p, a) ==
    [voltage |-> s.voltage,
     current |-> Mean(p.current, a),
     standardError |-> StandardError(p.current, a),
     measurements |-> numMeasurements,
     material |-> materials[s.currentMaterial].name,
     wavelength |-> p.wavelength,
     filter |-> s.currentFilter]

\* takePrecisionMeasurement() past its guard, with the draws j and a
StoreMeasurementNoCount(s, iv, j, a) ==
    LET p == calculatePhysics(s, j)
        m == MeasurementRecord(s, p, a)
        fd == updateFrequencyData(frequencyData, p, s.currentFilter)
    IN /\ experimentData' = Append(experimentData, m)
       /\ measurementCount' = measurementCount
       /\ ivData' = Append(iv, [x |-> s.voltage, y |-> m.current])
       /\ frequencyData' = fd
       /\ planckDisplay' = IF fd # frequencyData
                           THEN calculatePlanckConstant(fd, planckDisplay)
                           ELSE planckDisplay

StoreMeasurement(s, iv, j, a) ==
    LET p == calculatePhysics(s, j)
        m == MeasurementRecord(s, p, a)
        fd == updateFrequencyData(frequencyData, p, s.currentFilter)
    IN /\ experimentData' = Append(experimentData, m)
       /\ measurementCount' = measurementCount + 1
       /\ ivData' = Append(iv, [x |-> s.voltage, y |-> m.current])
       /\ frequencyData' = fd
       /\ planckDisplay' = IF fd # frequencyData
                           THEN calculatePlanckConstant(fd, planckDisplay)
                           ELSE planckDisplay

takePrecisionMeasurementNoGuard(s, iv) ==
    \E j \in JitterInputs, a \in NoiseInputs : StoreMeasurement(s, iv, j, a)

\* takePrecisionMeasurement() in the settings s (the voltage of s is the one
\* the caller has just set), on the ivData iv the caller leaves
takePrecisionMeasurement(s, iv) ==
    IF ~isExperimentActive
    THEN /\ ivData' = iv
         /\ UNCHANGED <<experimentData, measurementCount, frequencyData, planckDisplay>>
    ELSE \E j \in JitterInputs, a \in NoiseInputs : StoreMeasurement(s, iv, j, a)

\* updateAllCalculations() / updateCurrentReading(): what is rendered
Render(s) == \E j \in JitterInputs : physics' = calculatePhysics(s, j)

\* ---------------------------------------------------------------- handlers
\* The double the sweep's loop variable holds after `voltage -= 0.2`, on the
\* way down from 2.0: 1.8, 1.6, 1.4000000000000001, ..., -2.1999999999999997,
\* -2.4, -2.6, -2.8000000000000003, -3.0000000000000004.
SweepResidue(cv) ==
    IF cv >= 160 THEN 0
    ELSE IF cv >= -220 THEN 1
    ELSE IF cv >= -260 THEN 0
    ELSE -1

sweepStart == 200
sweepEnd == -300
sweepStep == 20

NextSweepVoltage(v) == Volt(v.cv - sweepStep, SweepResidue(v.cv - sweepStep))

\* iterations of its loop that a sweep with loop variable v has started
Iterations(v) == (sweepStart - v.cv) \div sweepStep + 1

\* the bound on the user's actions between the steps of a sweep
InWindow == \A i \in 1..Len(sweeps) : Iterations(sweeps[i]) \in InterleavePoints

\* the bounds on the user's actions other than a reset
UserMayAct == InWindow /\ Len(experimentData) <= MaxLog

\* materialSelect 'change'
MaterialChange(m) ==
    /\ UserMayAct
    /\ currentMaterial' = m
    /\ Render([CurrentSettings EXCEPT !.currentMaterial = m])
    /\ output' = NoOutput
    /\ UNCHANGED <<currentFilter, customWavelength, voltage, isExperimentActive,
                   measurementCount, autoSweepActive, filterSelectValue,
                   takeMeasurementDisabled, autoSweepDisabled, experimentData,
                   ivData, frequencyData, planckDisplay, sweeps>>

\* filterSelect 'change'
FilterChange(f) ==
    /\ UserMayAct
    /\ filterSelectValue' = f
    /\ currentFilter' = IF f = "custom" THEN currentFilter ELSE f
    /\ Render([CurrentSettings EXCEPT !.filterSelectValue = f,
                                      !.currentFilter = currentFilter'])
    /\ output' = NoOutput
    /\ UNCHANGED <<currentMaterial, customWavelength, voltage, isExperimentActive,
                   measurementCount, autoSweepActive,
                   takeMeasurementDisabled, autoSweepDisabled, experimentData,
                   ivData, frequencyData, planckDisplay, sweeps>>

\* wavelengthSlider 'input' (the slider is shown only while the select shows
\* 'custom')
WavelengthInput(w) ==
    /\ UserMayAct
    /\ filterSelectValue = "custom"
    /\ customWavelength' = w
    /\ Render([CurrentSettings EXCEPT !.customWavelength = w])
    /\ output' = NoOutput
    /\ UNCHANGED <<currentMaterial, currentFilter, voltage, isExperimentActive,
                   measurementCount, autoSweepActive, filterSelectValue,
                   takeMeasurementDisabled, autoSweepDisabled, experimentData,
                   ivData, frequencyData, planckDisplay, sweeps>>

\* voltageSlider 'input'
VoltageInput(cv) ==
    /\ UserMayAct
    /\ voltage' = Volt(cv, 0)
    /\ Render([CurrentSettings EXCEPT !.voltage = Volt(cv, 0)])
    /\ output' = NoOutput
    /\ UNCHANGED <<currentMaterial, currentFilter, customWavelength,
                   isExperimentActive, measurementCount, autoSweepActive,
                   filterSelectValue, takeMeasurementDisabled, autoSweepDisabled,
                   experimentData, ivData, frequencyData, planckDisplay, sweeps>>

\* toggleExperiment()
ToggleExperiment ==
    /\ UserMayAct
    /\ isExperimentActive' = ~isExperimentActive
    /\ takeMeasurementDisabled' = isExperimentActive
    /\ autoSweepDisabled' = isExperimentActive
    /\ output' = NoOutput
    /\ UNCHANGED <<currentMaterial, currentFilter, customWavelength, voltage,
                   measurementCount, autoSweepActive, filterSelectValue,
                   experimentData, ivData, frequencyData, planckDisplay, physics,
                   sweeps>>

\* takeMeasurement 'click' (a disabled button receives no click)
TakeMeasurement ==
    /\ UserMayAct
    /\ ~takeMeasurementDisabled
    /\ isExperimentActive => Len(experimentData) < MaxLog
    /\ takePrecisionMeasurement(CurrentSettings, ivData)
    /\ output' = NoOutput
    /\ UNCHANGED <<currentMaterial, currentFilter, customWavelength, voltage,
                   isExperimentActive, autoSweepActive, filterSelectValue,
                   takeMeasurementDisabled, autoSweepDisabled, physics, sweeps>>

\* the body of the sweep's for loop at loop variable v, up to its await
SweepBody(v, iv) ==
    /\ voltage' = v
    /\ Render([CurrentSettings EXCEPT !.voltage = v])
    /\ takePrecisionMeasurement([CurrentSettings EXCEPT !.voltage = v], iv)

\* autoSweep 'click': performAutoSweep() up to its first await
PerformAutoSweepGuard == ~isExperimentActive \/ autoSweepActive

PerformAutoSweep ==
    /\ UserMayAct
    /\ ~autoSweepDisabled
    /\ IF PerformAutoSweepGuard
       THEN output' = NoOutput /\ UNCHANGED programVars
       ELSE /\ Len(sweeps) < MaxSweeps
            /\ Len(experimentData) < MaxLog
            /\ autoSweepActive' = TRUE
            /\ autoSweepDisabled' = TRUE
            /\ SweepBody(Volt(sweepStart, 0), <<>>)
            /\ sweeps' = Append(sweeps, Volt(sweepStart, 0))
            /\ output' = NoOutput
            /\ UNCHANGED <<currentMaterial, currentFilter, customWavelength,
                           isExperimentActive, filterSelectValue,
                           takeMeasurementDisabled>>

\* The oldest timer fires (all timers have the same delay, so they fire in
\* the order they were set): performAutoSweep() from one await to the next,
\* or to its end.
SweepResumeKeepsFlag ==
    LET v == NextSweepVoltage(Head(sweeps))
    IN IF VoltGeq(v, Volt(sweepEnd, 0))
       THEN /\ SweepBody(v, ivData)
            /\ sweeps' = Append(Tail(sweeps), v)
            /\ output' = NoOutput
            /\ UNCHANGED <<currentMaterial, currentFilter, customWavelength,
                           isExperimentActive, autoSweepActive, filterSelectValue,
                           takeMeasurementDisabled, autoSweepDisabled>>
       ELSE /\ autoSweepDisabled' = FALSE
            /\ autoSweepActive' = autoSweepActive
            /\ sweeps' = Tail(sweeps)
            /\ output' = NoOutput
            /\ UNCHANGED <<currentMaterial, currentFilter, customWavelength, voltage,
                           isExperimentActive, measurementCount, filterSelectValue,
                           takeMeasurementDisabled, experimentData, ivData,
                           frequencyData, planckDisplay, physics>>
SweepResume ==
    LET v == NextSweepVoltage(Head(sweeps))
    IN IF VoltGeq(v, Volt(sweepEnd, 0))
       THEN /\ SweepBody(v, ivData)
            /\ sweeps' = Append(Tail(sweeps), v)
            /\ output' = NoOutput
            /\ UNCHANGED <<currentMaterial, currentFilter, customWavelength,
                           isExperimentActive, autoSweepActive, filterSelectValue,
                           takeMeasurementDisabled, autoSweepDisabled>>
       ELSE /\ autoSweepDisabled' = FALSE
            /\ autoSweepActive' = FALSE
            /\ sweeps' = Tail(sweeps)
            /\ output' = NoOutput
            /\ UNCHANGED <<currentMaterial, currentFilter, customWavelength, voltage,
                           isExperimentActive, measurementCount, filterSelectValue,
                           takeMeasurementDisabled, experimentData, ivData,
                           frequencyData, planckDisplay, physics>>

ClearGraphsOnlyIV ==
    /\ UserMayAct
    /\ ivData' = <<>>
    /\ output' = NoOutput
    /\ UNCHANGED <<currentMaterial, currentFilter, customWavelength, voltage,
                   isExperimentActive, measurementCount, autoSweepActive,
                   filterSelectValue, takeMeasurementDisabled, autoSweepDisabled,
                   experimentData, frequencyData, planckDisplay, physics, sweeps>>

ClearGraphsAndLog ==
    /\ UserMayAct
    /\ ivData' = <<>>
    /\ frequencyData' = <<>>
    /\ experimentData' = <<>>
    /\ output' = NoOutput
    /\ UNCHANGED <<currentMaterial, currentFilter, customWavelength, voltage,
                   isExperimentActive, measurementCount, autoSweepActive,
                   filterSelectValue, takeMeasurementDisabled, autoSweepDisabled,
                   planckDisplay, physics, sweeps>>

\* clearGraphs()
ClearGraphs ==
    /\ UserMayAct
    /\ ivData' = <<>>
    /\ frequencyData' = <<>>
    /\ output' = NoOutput
    /\ UNCHANGED <<currentMaterial, currentFilter, customWavelength, voltage,
                   isExperimentActive, measurementCount, autoSweepActive,
                   filterSelectValue, takeMeasurementDisabled, autoSweepDisabled,
                   experimentData, planckDisplay, physics, sweeps>>

\* resetExperiment(); a suspended sweep is not cancelled
ResetExperiment ==
    /\ InWindow
    /\ isExperimentActive' = FALSE
    /\ measurementCount' = 0
    /\ autoSweepActive' = FALSE
    /\ experimentData' = <<>>
    /\ ivData' = <<>>
    /\ frequencyData' = <<>>
    /\ takeMeasurementDisabled' = TRUE
    /\ autoSweepDisabled' = TRUE
    /\ voltage' = Volt(0, 0)
    /\ Render([CurrentSettings EXCEPT !.voltage = Volt(0, 0)])
    /\ output' = NoOutput
    /\ UNCHANGED <<currentMaterial, currentFilter, customWavelength,
                   filterSelectValue, planckDisplay, sweeps>>

\* wavelengthData.frequency.toExponential(3) in the settings s
FrequencyText(s) ==
    IF s.currentFilter = "custom" \/ s.filterSelectValue = "custom"
    THEN ToExponential3((speedOfLight * 100000) \div s.customWavelength, 9)
    ELSE ToExponential3(filters[s.currentFilter].frequency, 11)

\* One row of the CSV for the record data, written in the settings s: the
\* toFixed(6) texts are the numbers at the resolution they are held in
\* here, and that of the voltage is without the residue of the double.
ExportRow(data, s) ==
    [material |-> data.material,
     workFunction |-> materials[s.currentMaterial].workFunction,
     filter |-> data.filter,
     wavelength |-> data.wavelength,
     frequency |-> FrequencyText(s),
     photonEnergy |-> getCurrentWavelengthData(s).energy,
     voltage |-> data.voltage.cv,
     current |-> data.current,
     standardError |-> ToExponential3(data.standardError, -9),
     measurements |-> data.measurements,
     stoppingPotential |-> calculatePhysics(s, 0).stoppingPotential]

\* the file: a row for each record, and the frequency points
ExportFile(log, fd, s) ==
    [kind |-> "file",
     rows |-> [i \in 1..Len(log) |-> ExportRow(log[i], s)],
     points |-> fd]

ExportAlert == [kind |-> "alert"]

\* exportData 'click': exportLaboratoryData()
ExportLaboratoryDataNoCheck ==
    /\ UserMayAct
    /\ output' = ExportFile(experimentData, frequencyData, CurrentSettings)
    /\ UNCHANGED programVars
ExportLaboratoryData ==
    /\ UserMayAct
    /\ output' = IF Len(experimentData) = 0
                 THEN ExportAlert
                 ELSE ExportFile(experimentData, frequencyData, CurrentSettings)
    /\ UNCHANGED programVars

\* ----------------------------------------------------------- specification
\* the constructor, initializeApplication() and the page as served
Init ==
    /\ currentMaterial = 0
    /\ currentFilter = "blue"
    /\ customWavelength = 438
    /\ voltage = Volt(0, 0)
    /\ isExperimentActive = FALSE
    /\ measurementCount = 0
    /\ autoSweepActive = FALSE
    /\ filterSelectValue = "blue"
    /\ takeMeasurementDisabled = TRUE
    /\ autoSweepDisabled = TRUE
    /\ experimentData = <<>>
    /\ ivData = <<>>
    /\ frequencyData = <<>>
    /\ planckDisplay = HtmlDisplay
    /\ \E j \in JitterInputs :
          physics = calculatePhysics(Settings(0, "blue", "blue", 438, Volt(0, 0)), j)
    /\ sweeps = <<>>
    /\ output = NoOutput

Next ==
    \/ \E m \in MaterialInputs : MaterialChange(m)
    \/ \E f \in FilterInputs : FilterChange(f)
    \/ \E w \in WavelengthInputs : WavelengthInput(w)
    \/ \E cv \in VoltageInputs : VoltageInput(cv)
    \/ ToggleExperiment
    \/ TakeMeasurement
    \/ PerformAutoSweep
    \/ (sweeps # <<>> /\ SweepResume)
    \/ ClearGraphs
    \/ ResetExperiment
    \/ ExportLaboratoryData

Spec == Init /\ [][Next]_vars

\* The timer of the oldest suspended sweep fires, seen on the sweeps alone:
\* the steps of Next that change sweeps this way are the SweepResume steps,
\* and the timer is pending exactly while sweeps is not empty.
TimerFires ==
    /\ sweeps # <<>>
    /\ \/ sweeps' = Append(Tail(sweeps), NextSweepVoltage(Head(sweeps)))
       \/ sweeps' = Tail(sweeps)

\* setTimeout: a pending timer fires in the end, so a suspended sweep is
\* resumed.
SpecLive == Spec /\ WF_sweeps(TimerFires)

\* ------------------------------------- calculatePhysics as a function
\* Every material, every light source the controls offer, a forward and a
\* reverse voltage; the one step is a call of calculatePhysics().
InitPhysics ==
    /\ currentMaterial \in PhysicsMaterials
    /\ filterSelectValue \in PhysicsSelects
    /\ currentFilter = IF filterSelectValue = "custom" THEN "blue" ELSE filterSelectValue
    /\ customWavelength \in (IF filterSelectValue = "custom" THEN PhysicsWavelengths ELSE {438})
    /\ \E cv \in PhysicsVoltages : voltage = Volt(cv, 0)
    /\ isExperimentActive = FALSE
    /\ measurementCount = 0
    /\ autoSweepActive = FALSE
    /\ takeMeasurementDisabled = TRUE
    /\ autoSweepDisabled = TRUE
    /\ experimentData = <<>>
    /\ ivData = <<>>
    /\ frequencyData = <<>>
    /\ planckDisplay = HtmlDisplay
    /\ physics = calculatePhysics(CurrentSettings, 0)
    /\ sweeps = <<>>
    /\ output = NoOutput

CalculatePhysicsCall ==
    /\ \E j \in PhysicsJitter : physics' = calculatePhysics(CurrentSettings, j)
    /\ output' = NoOutput
    /\ UNCHANGED <<currentMaterial, currentFilter, customWavelength, voltage,
                   isExperimentActive, measurementCount, autoSweepActive,
                   filterSelectValue, takeMeasurementDisabled, autoSweepDisabled,
                   experimentData, ivData, frequencyData, planckDisplay, sweeps>>

NextPhysics == CalculatePhysicsCall

SpecPhysics == InitPhysics /\ [][NextPhysics]_vars

\* ------------------------------- calculatePlanckConstant as a function
\* The point a measurement of material m at custom wavelength w records.
PointOf(m, w) ==
    FrequencyPoint(calculatePhysics(Settings(m, "blue", "custom", w, Volt(0, 0)), 0), "blue")

RECURSIVE PointSeqs(_, _)
PointSeqs(m, n) ==
    IF n = 0 THEN {<<>>}
    ELSE {Append(q, PointOf(m, w)) : q \in PointSeqs(m, n - 1), w \in RegressionWavelengths}

\* frequencyData holds one to MaxPoints points of one material; the one step
\* is a call of calculatePlanckConstant().
InitRegression ==
    /\ currentMaterial \in RegressionMaterials
    /\ filterSelectValue = "custom"
    /\ currentFilter = "blue"
    /\ customWavelength = 438
    /\ voltage = Volt(0, 0)
    /\ isExperimentActive = TRUE
    /\ measurementCount = 0
    /\ autoSweepActive = FALSE
    /\ takeMeasurementDisabled = FALSE
    /\ autoSweepDisabled = FALSE
    /\ experimentData = <<>>
    /\ ivData = <<>>
    /\ \E n \in 1..MaxPoints : frequencyData \in PointSeqs(currentMaterial, n)
    /\ planckDisplay = HtmlDisplay
    /\ physics = calculatePhysics(CurrentSettings, 0)
    /\ sweeps = <<>>
    /\ output = NoOutput

CalculatePlanckConstantCall ==
    /\ planckDisplay' = calculatePlanckConstant(frequencyData, planckDisplay)
    /\ output' = NoOutput
    /\ UNCHANGED <<currentMaterial, currentFilter, customWavelength, voltage,
                   isExperimentActive, measurementCount, autoSweepActive,
                   filterSelectValue, takeMeasurementDisabled, autoSweepDisabled,
                   experimentData, ivData, frequencyData, physics, sweeps>>

NextRegression == CalculatePlanckConstantCall

SpecRegression == InitRegression /\ [][NextRegression]_vars

\* --------------------------------- takePrecisionMeasurement as a function
\* An active experiment with any material and filter at a forward and a
\* reverse voltage; the one step is a call of takePrecisionMeasurement()
\* with one of the drawn sets of samples.
InitSampler ==
    /\ currentMaterial \in SamplerMaterials
    /\ filterSelectValue \in SamplerSelects
    /\ currentFilter = filterSelectValue
    /\ customWavelength = 438
    /\ \E cv \in SamplerVoltages : voltage = Volt(cv, 0)
    /\ isExperimentActive = TRUE
    /\ measurementCount = 0
    /\ autoSweepActive = FALSE
    /\ takeMeasurementDisabled = FALSE
    /\ autoSweepDisabled = FALSE
    /\ experimentData = <<>>
    /\ ivData = <<>>
    /\ frequencyData = <<>>
    /\ planckDisplay = HtmlDisplay
    /\ physics = calculatePhysics(CurrentSettings, 0)
    /\ sweeps = <<>>
    /\ output = NoOutput

TakePrecisionMeasurementCall ==
    /\ isExperimentActive
    /\ Len(experimentData) < MaxLog
    /\ \E a \in SamplerNoise : StoreMeasurement(CurrentSettings, ivData, 0, a)
    /\ output' = NoOutput
    /\ UNCHANGED <<currentMaterial, currentFilter, customWavelength, voltage,
                   isExperimentActive, autoSweepActive, filterSelectValue,
                   takeMeasurementDisabled, autoSweepDisabled, physics, sweeps>>

NextSampler == TakePrecisionMeasurementCall

SpecSampler == InitSampler /\ [][NextSampler]_vars

\* ------------------------------------------------------------ properties
IsPrefix(a, b) == Len(a) <= Len(b) /\ SubSeq(b, 1, Len(a)) = a

\* a step in which takePrecisionMeasurement() stored a record
MeasurementTaken == Len(experimentData') = Len(experimentData) + 1

\* what calculatePhysics() returns at that measurement, the current aside
\* (the light source and the material are those of the state before)
MeasuredPhysics == calculatePhysics(CurrentSettings, 0)

Wavelengths(fd) == {fd[i].wavelength : i \in 1..Len(fd)}

\* C1: at most one voltage sweep is running at any time; a performAutoSweep
\* call made while an earlier sweep has not finished starts no second one.
C1_OneSweep == Len(sweeps) <= 1

\* C2: frequencyData never holds two points whose wavelengths are less than
\* 1 nm apart, and a measurement with emission at a wavelength at least 1 nm
\* from every stored point adds exactly one point, at that wavelength.
C2_OnePointPerBucket ==
    [][/\ \A i, j \in 1..Len(frequencyData') :
            i # j => Abs(frequencyData'[i].wavelength - frequencyData'[j].wavelength) >= 1
       /\ (/\ MeasurementTaken
           /\ MeasuredPhysics.isEmission
           /\ \A w \in Wavelengths(frequencyData) : Abs(w - MeasuredPhysics.wavelength) >= 1)
          => /\ Len(frequencyData') = Len(frequencyData) + 1
             /\ IsPrefix(frequencyData, frequencyData')
             /\ frequencyData'[Len(frequencyData')].wavelength = MeasuredPhysics.wavelength]_vars

\* points at 438 nm and at 439 nm, exactly 1 nm apart, from a longer log
C2_Witness ==
    /\ Len(frequencyData) = 2
    /\ Abs(frequencyData[1].wavelength - frequencyData[2].wavelength) = 1
    /\ Len(experimentData) > 2

\* C3: a measurement at a wavelength within 1 nm of a stored frequency point
\* neither replaces nor changes that point, nor any other: frequencyData
\* stays as it was (the first point of a bucket wins).
C3_FirstWriteWins ==
    [][(/\ MeasurementTaken
        /\ \E w \in Wavelengths(frequencyData) : Abs(w - MeasuredPhysics.wavelength) < 1)
       => frequencyData' = frequencyData]_vars

\* a later measurement of Sodium in blue light (stopping potential 0.553 V)
\* found the point Cesium had left there (0.733 V), and the point is as it was
C3_Witness ==
    /\ experimentData # <<>>
    /\ experimentData[Len(experimentData)].material = "Sodium"
    /\ experimentData[Len(experimentData)].wavelength = 438
    /\ \E i \in 1..Len(frequencyData) :
          /\ frequencyData[i].wavelength = 438
          /\ frequencyData[i].stoppingPotential = 7330

\* C4: every stored frequency point has a stopping potential above zero, and
\* a measurement without emission (photon energy at or below the work
\* function) leaves frequencyData as it was.
C4_PointsOnlyOnEmission ==
    [][/\ \A i \in 1..Len(frequencyData') : frequencyData'[i].stoppingPotential > 0
       /\ (MeasurementTaken /\ MeasuredPhysics.photonEnergy <= MeasuredPhysics.workFunction)
          => frequencyData' = frequencyData]_vars

\* Aluminum was measured in 439 nm light (2.8264 eV against 4.08 eV) and
\* frequencyData has no point there
C4_Witness ==
    /\ experimentData # <<>>
    /\ experimentData[Len(experimentData)].material = "Aluminum"
    /\ experimentData[Len(experimentData)].wavelength = 439
    /\ 439 \notin Wavelengths(frequencyData)

\* C5: while frequencyData holds fewer than two points the Planck-constant
\* estimate and the accuracy show a placeholder, not a number.
C5_PlaceholderBelowTwoPoints ==
    Len(frequencyData) < 2 => planckDisplay.kind \notin {"html", "number"}

OnEinsteinLine(fd) ==
    \A i \in 1..Len(fd) :
        1000 * (fd[i].stoppingPotential - fd[1].stoppingPotential)
            = planckConstant * (fd[i].frequency - fd[1].frequency)

\* C7: for two or more points of distinct frequencies that lie exactly on
\* the line of slope h, the estimate calculatePlanckConstant leaves is the
\* reference 4.136e-15 eV.s and the accuracy is 100.0%.
C7_ExactLineGivesReference ==
    (/\ Len(frequencyData) >= 2
     /\ \E i \in 1..Len(frequencyData) : frequencyData[i].frequency # frequencyData[1].frequency
     /\ OnEinsteinLine(frequencyData)
     /\ planckDisplay.kind = "number")
    => planckDisplay = Display("number", 4136, -15, 1000)

\* C8 as stated: across every operation the earlier contents of
\* experimentData remain a prefix of the later contents.
C8_AppendOnly == [][IsPrefix(experimentData, experimentData')]_vars

\* C8: across every operation but resetExperiment the earlier contents of
\* experimentData remain a prefix of the later contents; resetExperiment
\* leaves experimentData empty.
C8_AppendOnlyUntilReset ==
    [][IF ResetExperiment THEN experimentData' = <<>>
       ELSE IsPrefix(experimentData, experimentData')]_vars

\* a sweep in its third step whose log was emptied after the first one and
\* has grown by the two records since
C8_Witness ==
    /\ Len(sweeps) = 1
    /\ isExperimentActive
    /\ Iterations(sweeps[1]) = 3
    /\ Len(experimentData) = 2

\* a suspended sweep takes its next step: it sets the voltage and calls
\* takePrecisionMeasurement()
SweepStepTaken == sweeps # <<>> /\ sweeps' # sweeps /\ Len(sweeps') = Len(sweeps)

\* C9: a call of takePrecisionMeasurement while the experiment is inactive,
\* the calls of a sweep's steps included, changes none of experimentData,
\* ivData, frequencyData and measurementCount.
C9_InactiveMeasurementNoOp ==
    [][(~isExperimentActive /\ SweepStepTaken)
       => UNCHANGED <<experimentData, ivData, frequencyData, measurementCount>>]_vars

\* a sweep whose experiment was stopped after its first step is steps
\* further, and its first record is still the only one
C9_Witness ==
    /\ sweeps # <<>>
    /\ ~isExperimentActive
    /\ Iterations(sweeps[1]) >= 3
    /\ Iterations(sweeps[1]) < 25
    /\ Len(experimentData) = 1
    /\ measurementCount = 1
    /\ Len(ivData) = 1

\* C10: isEmission is true exactly when the photon energy is strictly above
\* the work function; at equality and below it is false.
C10_EmissionStrict ==
    physics.isEmission <=> physics.photonEnergy > physics.workFunction

\* Copper in 264 nm light: h c / lambda is 4.70 eV, the work function
C10_Witness ==
    /\ physics.photonEnergy = physics.workFunction
    /\ ~physics.isEmission

\* the voltage is at or below the cut-off -stoppingPotential of p
AtOrBelowCutoff(p) ==
    \/ 100 * voltage.cv < -p.stoppingPotential
    \/ (100 * voltage.cv = -p.stoppingPotential /\ voltage.eps <= 0)

\* C11: in every result of calculatePhysics maxKineticEnergy is
\* max(0, photonEnergy - workFunction), is never negative, and
\* stoppingPotential has the same value as maxKineticEnergy.
C11_KineticEnergy ==
    /\ physics.maxKineticEnergy >= 0
    /\ physics.maxKineticEnergy =
          (IF physics.photonEnergy > physics.workFunction
           THEN physics.photonEnergy - physics.workFunction ELSE 0)
    /\ physics.stoppingPotential = physics.maxKineticEnergy

\* Gold in orange light: 2.075 eV against 5.10 eV, clamped to zero
C11_Witness ==
    /\ physics.photonEnergy < physics.workFunction
    /\ physics.maxKineticEnergy = 0
    /\ physics.stoppingPotential = 0

\* C12: during emission, at every voltage >= 0 the current is within the
\* jitter of the saturation current: 15 * 0.9995 <= current <= 15 * 1.0005.
C12_Saturation ==
    (physics.isEmission /\ VoltGeq(voltage, Volt(0, 0)))
    => /\ physics.current >= saturationCurrent - saturationCurrent \div 2000
       /\ physics.current <= saturationCurrent + saturationCurrent \div 2000

\* at 0 V with the lowest draw of the jitter: 14.9925 microampere
C12_Witness ==
    /\ physics.isEmission
    /\ voltage = Volt(0, 0)
    /\ physics.current = saturationCurrent - saturationCurrent \div 2000

\* C13: the current is exactly 0 whenever there is no emission, at every
\* voltage, and whenever during emission voltage <= -stoppingPotential.
C13_ZeroCurrent ==
    /\ ~physics.isEmission => physics.current = 0
    /\ (physics.isEmission /\ AtOrBelowCutoff(physics)) => physics.current = 0

\* Cesium in 240 nm light at -3.07 V, the stopping potential itself
C13_Witness ==
    /\ physics.isEmission
    /\ 100 * voltage.cv = -physics.stoppingPotential
    /\ physics.current = 0

\* what calculatePhysics returns at cv hundredths of a volt, without jitter
PhysicsAt(cv) == calculatePhysics([CurrentSettings EXCEPT !.voltage = Volt(cv, 0)], 0)

\* cv hundredths of a volt is on the ramp of the light and material in effect
OnRamp(cv) ==
    /\ PhysicsAt(cv).isEmission
    /\ cv < 0
    /\ 100 * cv > -PhysicsAt(cv).stoppingPotential

\* C14: during emission and for -stoppingPotential < voltage < 0 the
\* current before jitter is 15 * (voltage + stoppingPotential) /
\* stoppingPotential: between 0 and 15, non-decreasing in the voltage, 15
\* at voltage 0 and 0 at voltage -stoppingPotential; the current returned
\* is that value within the jitter.
C14_Ramp ==
    /\ \A cv \in PhysicsVoltages :
          OnRamp(cv) =>
             LET p == PhysicsAt(cv)
             IN /\ p.current >= 0
                /\ p.current <= saturationCurrent
                \* to a hundredth of a microampere
                /\ (p.current \div 1000) * p.stoppingPotential
                      <= (saturationCurrent \div 1000) * (100 * cv + p.stoppingPotential)
                /\ (p.current \div 1000 + 1) * p.stoppingPotential
                      > (saturationCurrent \div 1000) * (100 * cv + p.stoppingPotential)
                /\ \A cw \in PhysicsVoltages :
                      (OnRamp(cw) /\ cw <= cv) => PhysicsAt(cw).current <= p.current
                /\ PhysicsAt(0).current = saturationCurrent
    /\ OnRamp(voltage.cv) =>
          Abs(physics.current - PhysicsAt(voltage.cv).current)
             <= PhysicsAt(voltage.cv).current \div 2000 + 1

\* on a ramp at -1.00 V, above half the saturation current and below the
\* current at -0.50 V
C14_Witness ==
    /\ OnRamp(voltage.cv)
    /\ OnRamp(-50)
    /\ voltage.cv = -100
    /\ physics.current > 0
    /\ 2 * physics.current > saturationCurrent
    /\ physics.current < PhysicsAt(-50).current

\* C15: whenever the ramp factor (voltage + stoppingPotential) /
\* stoppingPotential is evaluated (emission, -stoppingPotential <= voltage
\* < 0) stoppingPotential > 0, as it is whenever there is emission, and
\* the current is a number between 0 and the saturation current's jitter.
C15_RampDivisor ==
    /\ physics.isEmission => physics.stoppingPotential > 0
    /\ (physics.isEmission /\ voltage.cv < 0 /\ ~AtOrBelowCutoff(physics))
       => /\ physics.stoppingPotential > 0
          /\ physics.current >= 0
          /\ physics.current <= saturationCurrent + saturationCurrent \div 2000

\* the ramp evaluated at -0.50 V with a stopping potential below 0.6 V
C15_Witness ==
    /\ physics.isEmission
    /\ voltage.cv = -50
    /\ ~AtOrBelowCutoff(physics)
    /\ physics.stoppingPotential < 6000
    /\ physics.current > 0
    /\ physics.current < saturationCurrent

\* C16: Cesium (2.10 eV) under the blue filter (438 nm, 2.833 eV), the
\* settings a session starts with, gives maxKineticEnergy 0.733,
\* stoppingPotential 0.733 and isEmission true.
C16_CesiumBlue ==
    (currentMaterial = 0 /\ filterSelectValue = "blue")
    => /\ physics.maxKineticEnergy = 7330
       /\ physics.stoppingPotential = 7330
       /\ physics.isEmission

C16_Witness ==
    /\ materials[currentMaterial].name = "Cesium"
    /\ filterSelectValue = "blue" /\ currentFilter = "blue"
    /\ customWavelength = 438 /\ voltage = Volt(0, 0)
    /\ physics.wavelength = 438
    /\ physics.photonEnergy = 28330
    /\ physics.workFunction = 21000

\* C17: a sweep that nothing interrupts sets the voltage to 2.0, 1.8, ...,
\* -3.0 and measures at each: when it ends, ivData, emptied at its start,
\* holds 26 points and the voltage is -3.0.
C17_SweepOf26 ==
    [][(/\ Len(sweeps) = 1
        /\ sweeps' = <<>>
        /\ isExperimentActive
        /\ Len(ivData) = Iterations(sweeps[1]))
       => /\ Len(ivData) = (sweepStart - sweepEnd) \div sweepStep + 1
          /\ voltage.cv = sweepEnd]_vars

\* the last record of the log
LastRecord(log) == log[Len(log)]

\* C18: a take-measurement action on an active experiment appends exactly
\* one record; a record appended has sample count 1000 and the voltage,
\* material and wavelength in effect; every record of the log has sample
\* count 1000.
C18_OneRecordOf1000 ==
    [][/\ (TakeMeasurement /\ isExperimentActive) => MeasurementTaken
       /\ MeasurementTaken =>
             /\ IsPrefix(experimentData, experimentData')
             /\ LastRecord(experimentData').measurements = 1000
             /\ LastRecord(experimentData').voltage = voltage'
             /\ LastRecord(experimentData').material = materials[currentMaterial].name
             /\ LastRecord(experimentData').wavelength = MeasuredPhysics.wavelength
       /\ \A i \in 1..Len(experimentData') : experimentData'[i].measurements = 1000]_vars

\* one record, taken by hand at 0 V: Sodium in 439 nm light
C18_Witness ==
    /\ Len(experimentData) = 1
    /\ measurementCount = 1
    /\ experimentData[1].voltage = Volt(0, 0)
    /\ experimentData[1].material = "Sodium"
    /\ experimentData[1].wavelength = 439
    /\ experimentData[1].measurements = 1000

\* C19: for 1000 samples each within 0.05 % of a non-zero physics current
\* the recorded mean is within 0.05 % of that current and the standard
\* error is below 0.001 % of it.
C19_StandardErrorBound ==
    \A i \in 1..Len(experimentData) :
        physics.current # 0 =>
           /\ Abs(experimentData[i].current - physics.current) <= physics.current \div 2000
           /\ 10 * experimentData[i].standardError < physics.current

FixedWavelengths == {filters[f].wavelength : f \in FilterNames}

\* C20: the filter tag of every record and of every frequency point names
\* the source of its wavelength: a fixed filter's tag only with that
\* filter's wavelength, the tag custom with a wavelength of the slider.
C20_TaggedSource ==
    /\ \A i \in 1..Len(experimentData) :
          IF experimentData[i].filter \in FilterNames
          THEN experimentData[i].wavelength = filters[experimentData[i].filter].wavelength
          ELSE experimentData[i].filter = "custom"
    /\ \A i \in 1..Len(frequencyData) :
          IF frequencyData[i].filter \in FilterNames
          THEN frequencyData[i].wavelength = filters[frequencyData[i].filter].wavelength
          ELSE frequencyData[i].filter = "custom"

\* C21: exportLaboratoryData on an empty log only shows a notice: it offers
\* no file and changes nothing of the session.
C21_ExportEmptyNotice ==
    [][(experimentData = <<>> /\ output' # NoOutput)
       => (output'.kind = "alert" /\ UNCHANGED programVars)]_vars

C21_Witness == output.kind = "alert" /\ experimentData = <<>>

\* C22: in every reachable state measurementCount is the number of records
\* in experimentData.
C22_CountIsLogLength == measurementCount = Len(experimentData)

\* after a whole sweep
C22_Witness == measurementCount = 25 /\ Len(experimentData) = 25

\* the state resetExperiment leaves
ResetState ==
    /\ voltage = Volt(0, 0)
    /\ ~isExperimentActive
    /\ ~autoSweepActive
    /\ experimentData = <<>>
    /\ ivData = <<>>
    /\ frequencyData = <<>>
    /\ measurementCount = 0

\* a suspended sweep is resumed: it takes its next step or ends
SweepResumed == sweeps # <<>> /\ sweeps' # sweeps /\ Len(sweeps') <= Len(sweeps)

\* C23: after resetExperiment, while the user does nothing, the session
\* stays in its reset state: a sweep that was in progress at the reset
\* changes nothing of it.
C23_ResetIsStable == [][(ResetState /\ SweepResumed) => ResetState']_vars

\* C24: every sweep that starts finishes: whenever autoSweepActive is true
\* it is false again later, whatever the user does in between.
C24_SweepFinishes == autoSweepActive ~> ~autoSweepActive

\* a sweep has run to its end on an active experiment
C24_Witness ==
    /\ sweeps = <<>>
    /\ ~autoSweepActive
    /\ isExperimentActive
    /\ voltage.cv = sweepEnd + sweepStep
    /\ Len(ivData) >= 25

\* C25: in every reachable state the take-measurement and the auto-sweep
\* button are enabled only while the experiment is active.
C25_ButtonsOnlyWhenActive ==
    (~takeMeasurementDisabled \/ ~autoSweepDisabled) => isExperimentActive

\* the photon energies a point or row of wavelength w can have been taken
\* with: computed from the slider's wavelength, or a filter's table value
EnergiesAt(w) ==
    {(planckConstant * speedOfLight) \div w}
       \cup {filters[f].energy : f \in {g \in FilterNames : filters[g].wavelength = w}}

\* C26: all points of frequencyData were recorded with one material: some
\* work function accounts for the stopping potential of every point.
C26_OneMaterial ==
    \E m \in DOMAIN materials :
        \A i \in 1..Len(frequencyData) :
            \E e \in EnergiesAt(frequencyData[i].wavelength) :
                frequencyData[i].stoppingPotential = e - materials[m].workFunction

FrequenciesAt(w) ==
    {ToExponential3((speedOfLight * 100000) \div w, 9)}
       \cup {ToExponential3(filters[f].frequency, 11) :
                f \in {g \in FilterNames : filters[g].wavelength = w}}

\* C27: in every row of an exported file the work function, the frequency,
\* the photon energy and the stopping potential are those of the material
\* and light of the row's measurement.
C27_ExportRowsOfMeasurement ==
    output.kind = "file" =>
        \A i \in 1..Len(output.rows) :
            LET row == output.rows[i]
            IN \E m \in DOMAIN materials :
                  /\ materials[m].name = row.material
                  /\ row.workFunction = materials[m].workFunction
                  /\ row.photonEnergy \in EnergiesAt(row.wavelength)
                  /\ row.frequency \in FrequenciesAt(row.wavelength)
                  /\ row.stoppingPotential = Max(0, row.photonEnergy - row.workFunction)

\* C28: clearGraphs empties ivData and frequencyData and leaves
\* experimentData, measurementCount, the voltage, the material, the light
\* source, isExperimentActive and autoSweepActive as they were.
C28_ClearGraphsFrame ==
    [][ClearGraphs =>
          /\ ivData' = <<>>
          /\ frequencyData' = <<>>
          /\ UNCHANGED <<experimentData, measurementCount, voltage, currentMaterial,
                         currentFilter, filterSelectValue, customWavelength,
                         isExperimentActive, autoSweepActive>>]_vars

\* a log whose graphs were cleared
C28_Witness ==
    /\ experimentData # <<>>
    /\ measurementCount > 0
    /\ ivData = <<>>
    /\ frequencyData = <<>>
    /\ isExperimentActive

====
